---- MODULE Spec2Model ----
(***************************************************************************)
(* MainScene of water-reflection: the asynchronous init, the animation     *)
(* loop (draw / requestAnimationFrame), the resize handler and the         *)
(* particle-position generator, for both variants of the scene file        *)
(* (src/src/js/components/scene.js and src/unnamed/part_000).              *)
(***************************************************************************)
EXTENDS Integers, FiniteSets, Sequences, TLC

VARIABLES variant, loader, obj, win

vars == <<variant, loader, obj, win>>

(***************************************************************************)
(* Bounds of the model.                                                    *)
(***************************************************************************)
MaxDim == 2        \* window.innerWidth / innerHeight range over 1..MaxDim
MaxFrames == 2     \* number of draw calls explored
MaxTs == 1         \* timestamps handed to draw by the browser: 1..MaxTs

(***************************************************************************)
(* Program constants.                                                      *)
(***************************************************************************)
count == 5000      \* setParticles: const count = 5000
Stride == 3        \* setParticles: i+=3 and count * 3
GuiRange == 3      \* setGUI: gui.add(this.guiObj, 'y', -3, 3)

(***************************************************************************)
(* JavaScript values.                                                      *)
(***************************************************************************)
Undefined == [t |-> "undefined"]
NaN == [t |-> "NaN"]
Infinity == [t |-> "Infinity"]
Num(n) == [t |-> "number", v |-> n]
Ratio(n, d) == [t |-> "ratio", n |-> n, d |-> d]

RECURSIVE GCD(_, _)
GCD(a, b) == IF b = 0 THEN a ELSE GCD(b, a % b)

\* a / b on two values that are undefined or non-negative integers
JsDiv(a, b) ==
  IF a = Undefined \/ b = Undefined THEN NaN
  ELSE IF b.v = 0 THEN (IF a.v = 0 THEN NaN ELSE Infinity)
  ELSE LET g == GCD(a.v, b.v)
       IN  IF b.v \div g = 1 THEN Num(a.v \div g) ELSE Ratio(a.v \div g, b.v \div g)

\* ToBoolean on undefined or a non-negative integer
Truthy(x) == x # Undefined /\ x # Num(0)

\* the inner width or height of a window that is shown
Dims == {Num(n) : n \in 1..MaxDim}
\* window.devicePixelRatio: missing (falsy), or a ratio
DPRs == {Undefined, Num(2)}
Timestamps == 1..MaxTs
\* the two ends of the slider
GuiValues == {0 - GuiRange, GuiRange}

Variants == {"scene", "part_000"}

(***************************************************************************)
(* The state after `new MainScene()`: the constructor has read the canvas  *)
(* and init has run up to `await LoaderManager.load(assets)`.              *)
(***************************************************************************)
NewMainScene ==
  [ canvas      |-> "canvas.scene",
    renderer    |-> Undefined,
    scene       |-> Undefined,
    camera      |-> Undefined,
    controls    |-> Undefined,
    stats       |-> Undefined,
    gui         |-> Undefined,
    width       |-> Undefined,
    height      |-> Undefined,
    sphereMesh  |-> Undefined,
    groundMirror|-> Undefined,
    positions   |-> Undefined,
    guiObj      |-> [y |-> 0, showTitle |-> TRUE],
    raf         |-> Undefined,
    called      |-> <<>>,      \* methods of init called so far, in order
    drawCalls   |-> 0 ]        \* invocations of draw

Init ==
  /\ variant \in Variants
  /\ loader = "pending"
  /\ obj = NewMainScene
  /\ \E w \in Dims, h \in Dims, d \in DPRs :
       win = [ innerWidth       |-> w,
               innerHeight      |-> h,
               devicePixelRatio |-> d,
               listeners        |-> {},
               resizeQueued     |-> FALSE,
               rafPending       |-> {},
               rafIssued        |-> 0,
               fontPending      |-> FALSE ]

World == [obj |-> obj, win |-> win]

Called(w, name) == [w EXCEPT !.obj.called = Append(@, name)]

(***************************************************************************)
(* The methods of MainScene, as functions from world to world.             *)
(***************************************************************************)
setStats(w) ==
  [Called(w, "setStats") EXCEPT !.obj.stats = [panel |-> 0]]

setGUI(w) ==
  [Called(w, "setGUI") EXCEPT !.obj.gui = [min |-> 0 - GuiRange, max |-> GuiRange]]

setScene(w) ==
  [Called(w, "setScene") EXCEPT !.obj.scene = [children |-> {}]]

setRender(w) ==
  [Called(w, "setRender") EXCEPT
     !.obj.renderer = [ canvas      |-> w.obj.canvas,
                        pixelRatio  |-> Num(1),
                        size        |-> Undefined,
                        renderCalls |-> 0,
                        lastRender  |-> Undefined ]]

setCamera(w) ==
  LET aspectRatio == JsDiv(w.obj.width, w.obj.height)
  IN  [Called(w, "setCamera") EXCEPT
         !.obj.camera = [ aspect           |-> aspectRatio,
                          projectionAspect |-> aspectRatio,
                          ctorAspect       |-> aspectRatio ],
         !.obj.scene.children = @ \cup {"camera"}]

setControls(w) ==
  [Called(w, "setControls") EXCEPT !.obj.controls = [enableDamping |-> TRUE]]

setText(w) ==
  [Called(w, "setText") EXCEPT !.win.fontPending = TRUE]

setSphere(w) ==
  [Called(w, "setSphere") EXCEPT
     !.obj.sphereMesh = [y |-> Num(0)],
     !.obj.scene.children = @ \cup {"sphereMesh"}]

setLights(w) ==
  [Called(w, "setLights") EXCEPT
     !.obj.scene.children = @ \cup {"directionalLight", "ambientLight"}]

setReflector(w) ==
  [Called(w, "setReflector") EXCEPT
     !.obj.groundMirror = [time |-> 0],     \* uniforms.time, in steps of 0.1
     !.obj.scene.children = @ \cup {"groundMirror"}]

\* the indices i at which the body of `for (let i = 0; i < count; i += 3)` runs
LoopIndices == {i \in 0..(count - 1) : i % Stride = 0}

\* the entries of a typed array of the given length written by the fill loop
FillPositions(length) ==
  {k \in UNION {{i, i + 1, i + 2} : i \in LoopIndices} : k < length}

\* setParticles of scene.js (the one of part_000 is empty and never called)
setParticles(w) ==
  [Called(w, "setParticles") EXCEPT
     !.obj.positions = [ length  |-> count * Stride,
                         \* how many entries the loop has assigned
                         written |-> Cardinality(FillPositions(count * Stride)) ],
     !.obj.scene.children = @ \cup {"particles"}]

setImage(w) ==
  [Called(w, "setImage") EXCEPT !.obj.scene.children = @ \cup {"plane"}]

\* handleResize that forgets the camera
handleResize_noCamera(w) ==
  LET width  == w.win.innerWidth
      height == w.win.innerHeight
      DPR    == IF Truthy(w.win.devicePixelRatio)
                THEN w.win.devicePixelRatio ELSE Num(1)
  IN  [w EXCEPT
         !.obj.width  = width,
         !.obj.height = height,
         !.obj.renderer.pixelRatio = DPR,
         !.obj.renderer.size = <<width, height>>]

handleResize(w) ==
  LET width  == w.win.innerWidth
      height == w.win.innerHeight
      DPR    == IF Truthy(w.win.devicePixelRatio)
                THEN w.win.devicePixelRatio ELSE Num(1)
  IN  [w EXCEPT
         !.obj.width  = width,
         !.obj.height = height,
         !.obj.camera.aspect = JsDiv(width, height),
         !.obj.camera.projectionAspect = JsDiv(width, height),
         !.obj.renderer.pixelRatio = DPR,
         !.obj.renderer.size = <<width, height>>]

\* renderer.render(this.scene, this.camera): what the frame is rendered with
render(w) ==
  [w EXCEPT
     !.obj.renderer.renderCalls = @ + 1,
     !.obj.renderer.lastRender =
        [ aspect |-> w.obj.camera.aspect,
          time   |-> w.obj.groundMirror.time ]]

\* window.requestAnimationFrame(this.draw): returns the id of the request
requestAnimationFrame(w) ==
  [w EXCEPT
     !.win.rafIssued  = @ + 1,
     !.win.rafPending = @ \cup {w.win.rafIssued + 1}]

\* draw that does not request the next frame
draw_noRequest(w, time) ==
  LET w1 == render([w EXCEPT !.obj.drawCalls = @ + 1])
      w2 == IF variant = "part_000"
            THEN [w1 EXCEPT !.obj.sphereMesh.y = [t |-> "sin+3", ms |-> time]]
            ELSE w1
  IN  [w2 EXCEPT !.obj.groundMirror.time = @ + 1]

\* draw that advances the time uniform before rendering
draw_incrementFirst(w, time) ==
  LET w1 == [w EXCEPT !.obj.drawCalls = @ + 1, !.obj.groundMirror.time = @ + 1]
      w2 == render(w1)
      w3 == IF variant = "part_000"
            THEN [w2 EXCEPT !.obj.sphereMesh.y = [t |-> "sin+3", ms |-> time]]
            ELSE w2
      w4 == requestAnimationFrame(w3)
  IN  [w4 EXCEPT !.obj.raf = Num(w4.win.rafIssued)]

draw(w, time) ==
  LET w1 == render([w EXCEPT !.obj.drawCalls = @ + 1])
      w2 == IF variant = "part_000"
            THEN [w1 EXCEPT !.obj.sphereMesh.y = [t |-> "sin+3", ms |-> time]]
            ELSE w1
      w3 == [w2 EXCEPT !.obj.groundMirror.time = @ + 1]   \* += 0.1, in steps
      w4 == requestAnimationFrame(w3)
  IN  [w4 EXCEPT !.obj.raf = Num(w4.win.rafIssued)]

events(w) ==
  draw([Called(w, "events") EXCEPT !.win.listeners = @ \cup {"handleResize"}], 0)

\* the part of init after `await LoaderManager.load(assets)`
init(w) ==
  IF variant = "scene"
  THEN LET a  == setStats(w)
           b  == setScene(a)
           c  == setRender(b)
           d  == setCamera(c)
           e  == setControls(d)
           f  == setText(e)
           g  == setLights(f)
           h  == setReflector(g)
           i  == setParticles(h)
           j  == setImage(i)
           k  == handleResize(Called(j, "handleResize"))
       IN  events(k)
  ELSE LET a  == setStats(w)
           b  == setGUI(a)
           c  == setScene(b)
           d  == setRender(c)
           e  == setCamera(d)
           f  == setControls(e)
           g  == setSphere(f)
           h  == setLights(g)
           i  == setReflector(h)
           j  == handleResize(Called(i, "handleResize"))
       IN  events(j)

(***************************************************************************)
(* Actions.                                                                *)
(***************************************************************************)
Started == obj.called # <<>>

\* the promise returned by LoaderManager.load settles
LoadResolve ==
  /\ loader = "pending"
  /\ loader' = "resolved"
  /\ UNCHANGED <<variant, obj, win>>

LoadReject ==
  /\ loader = "pending"
  /\ loader' = "rejected"
  /\ UNCHANGED <<variant, obj, win>>

\* init that does not wait for the load
InitResume_noAwait ==
  /\ loader \in {"pending", "resolved"}
  /\ ~Started
  /\ LET w == init(World)
     IN  obj' = w.obj /\ win' = w.win
  /\ UNCHANGED <<variant, loader>>

\* init resumes after the await
InitResume ==
  /\ loader = "resolved"
  /\ ~Started
  /\ LET w == init(World)
     IN  obj' = w.obj /\ win' = w.win
  /\ UNCHANGED <<variant, loader>>

\* the user resizes the window (or moves it to another screen)
WindowResize ==
  /\ \E w \in Dims, h \in Dims, d \in DPRs :
       win' = [win EXCEPT !.innerWidth = w, !.innerHeight = h,
                          !.devicePixelRatio = d, !.resizeQueued = TRUE]
  /\ UNCHANGED <<variant, loader, obj>>

\* the browser dispatches the resize event to the registered listeners
ResizeEvent ==
  /\ win.resizeQueued
  /\ LET w0 == [World EXCEPT !.win.resizeQueued = FALSE]
         w  == IF "handleResize" \in win.listeners THEN handleResize(w0) ELSE w0
     IN  obj' = w.obj /\ win' = w.win
  /\ UNCHANGED <<variant, loader>>

\* the browser runs a requested animation frame callback
AnimationFrame ==
  /\ obj.drawCalls < MaxFrames
  /\ \E id \in win.rafPending, ts \in Timestamps :
       LET w == draw([World EXCEPT !.win.rafPending = @ \ {id}], ts)
       IN  obj' = w.obj /\ win' = w.win
  /\ UNCHANGED <<variant, loader>>

\* the FontLoader callback of setText
FontLoaded ==
  /\ win.fontPending
  /\ win' = [win EXCEPT !.fontPending = FALSE]
  /\ obj' = [obj EXCEPT !.scene.children = @ \cup {"text"}]
  /\ UNCHANGED <<variant, loader>>

\* the onChange callback of setGUI
GuiChange ==
  /\ obj.gui # Undefined
  /\ \E y \in GuiValues :
       obj' = [obj EXCEPT !.guiObj.y = y, !.sphereMesh.y = Num(y)]
  /\ UNCHANGED <<variant, loader, win>>

Next ==
  \/ LoadResolve
  \/ LoadReject
  \/ InitResume
  \/ WindowResize
  \/ ResizeEvent
  \/ AnimationFrame
  \/ FontLoaded
  \/ GuiChange

Spec == Init /\ [][Next]_vars

(***************************************************************************)
(* Properties.                                                             *)
(***************************************************************************)
RenderCalls(o) == IF o.renderer = Undefined THEN 0 ELSE o.renderer.renderCalls

\* a resize has been handled since the last rendered frame
ResizedSinceRender ==
  /\ Started
  /\ obj.renderer.lastRender.aspect # obj.camera.aspect

\* C1: every draw renders once and requests one frame; once events() has
\* started the loop exactly one frame request is pending, this.raf is its id,
\* and the next frame can always run, whatever resizes are interleaved.
C1_OneFramePending ==
  /\ ~Started =>
       /\ obj.drawCalls = 0
       /\ win.rafIssued = 0
       /\ win.rafPending = {}
  /\ Started =>
       /\ obj.renderer.renderCalls = obj.drawCalls
       /\ win.rafIssued = obj.drawCalls
       /\ Cardinality(win.rafPending) = 1
       /\ win.rafPending = {obj.raf.v}
       /\ obj.drawCalls < MaxFrames => ENABLED AnimationFrame

C1_Witness ==
  /\ ResizedSinceRender
  /\ obj.drawCalls >= 2
  /\ win.rafPending = {obj.raf.v}

\* C2: nothing of the scene is set up, no resize listener is registered and
\* no frame is drawn or requested until LoaderManager.load has resolved; with
\* a rejected or pending load this stays so.
C2_NothingBeforeLoad ==
  loader # "resolved" =>
    /\ obj = NewMainScene
    /\ win.listeners = {}
    /\ win.rafPending = {}
    /\ win.rafIssued = 0
    /\ ~win.fontPending

C2_Witness ==
  /\ loader = "rejected"
  /\ win.resizeQueued
  /\ obj.called = <<>>

\* what handleResize establishes from the window it reads
SizeAdapted(o, wn) ==
  /\ o.width = wn.innerWidth
  /\ o.height = wn.innerHeight
  /\ o.camera.aspect = JsDiv(o.width, o.height)
  /\ o.renderer.size = <<o.width, o.height>>
  /\ o.renderer.pixelRatio =
       (IF wn.devicePixelRatio \in {Undefined, Num(0)} THEN Num(1)
        ELSE wn.devicePixelRatio)

\* the steps in which handleResize is called: by init, and by a resize event
\* once the listener is registered
HandleResizeStep ==
  \/ InitResume
  \/ ResizeEvent /\ "handleResize" \in win.listeners

\* C3: after every call of handleResize, width, height, camera.aspect and the
\* renderer's size and pixel ratio are those of the window read in the call;
\* and every frame is rendered with camera.aspect = this.width / this.height.
C3_ResizeAdapts ==
  [][ /\ HandleResizeStep => SizeAdapted(obj', win')
      /\ RenderCalls(obj') # RenderCalls(obj) =>
           obj'.renderer.lastRender.aspect = JsDiv(obj'.width, obj'.height)
      /\ Started' => obj'.camera.aspect = JsDiv(obj'.width, obj'.height)
    ]_vars

C3_Witness ==
  /\ ResizedSinceRender
  /\ ~win.resizeQueued
  /\ win.devicePixelRatio = Undefined
  /\ obj.renderer.pixelRatio = Num(1)
  /\ obj.camera.aspect = JsDiv(win.innerWidth, win.innerHeight)
  /\ obj.camera.aspect \notin {NaN, Infinity}

\* C4: when the fill loop of setParticles ends, every one of the 3 * count
\* entries of the positions array has been written.
C4_AllPositionsWritten ==
  obj.positions # Undefined =>
    obj.positions.written = Stride * count

\* C5: setCamera constructs the camera with aspect innerWidth / innerHeight.
C5_CameraConstructedWithWindowAspect ==
  [][ InitResume =>
        obj'.camera.ctorAspect = JsDiv(win.innerWidth, win.innerHeight) ]_vars

\* C6: the time uniform is 0 at setReflector and grows by one step per draw,
\* after the render of that frame: after n draws it is n steps, each frame is
\* rendered with the value of the frames before it, and neither the timestamp
\* nor a resize changes it.
C6_TimeUniformCountsFrames ==
  /\ ~Started => obj.groundMirror = Undefined
  /\ Started =>
       /\ obj.groundMirror.time = obj.drawCalls
       /\ obj.renderer.lastRender.time = obj.drawCalls - 1

C6_Witness ==
  /\ Started
  /\ obj.groundMirror.time = 2
  /\ obj.renderer.lastRender.time = 1
  /\ win.resizeQueued

====
